---- MODULE Spec2Model ----
(***************************************************************************)
(* A model of the ZeroVisibilityVisionSystem image pipeline:               *)
(*   src/image_processing.py  apply_gamma_correction, enhance_low_light,   *)
(*                            remove_fog, remove_smoke_noise               *)
(*   src/app.py               the /enhance request handler and save_image  *)
(*                                                                         *)
(* Numbers.  8-bit samples are integers 0..255.  A float sample v/255 is   *)
(* held as the integer or rational number of 255ths it stands for, and the *)
(* float expressions are evaluated as exact rationals.  The one place      *)
(* where binary rounding decides the result, int(w * (1500 / max(h, w)))   *)
(* of enhance_low_light, is evaluated as IEEE-754 binary64 does it, on     *)
(* digit sequences.  OpenCV calls whose pixel results no claim reads       *)
(* (white balance, CLAHE, blur, bilateral, non-local means) are modelled   *)
(* by what they do to the shape and, where the code reads a value out of   *)
(* their result, by a choice over the values that result can take.         *)
(***************************************************************************)
EXTENDS Integers, Sequences, FiniteSets, TLC

VARIABLES
    \* ---- enhance_low_light / remove_smoke_noise / apply_gamma_correction
    mode,             \* which enhancer runs on the buffer
    pc,               \* position in the enhancer
    shape_in,         \* <<h, w>> of the input buffer
    shape,            \* <<h, w>> of the buffer being worked on
    mean_brightness,  \* numerator of the mean gray level, in 1/MeanDen
    gamma,            \* <<p, q>> for the float p/q, or None
    table,            \* the 256-entry lookup table (index i+1 holds entry i)
    pixel,            \* one sample of the image passed through cv2.LUT
    \* ---- app.py: the /enhance handler
    requests,         \* per request: position, form fields, local variables
    uploads,          \* static/uploads: file name -> bytes
    results,          \* static/results: timestamp of the name -> image
    clock,            \* datetime.now(), in microseconds
    \* ---- remove_fog
    fpc,              \* position in remove_fog
    image,            \* [h, w, px]: px[i] the <<b, g, r>> of pixel i, row-major
    dark,             \* the dark channel, in 255ths
    indices,          \* the pixels argpartition selects
    A,                \* per channel, the sum of the selected colours (255ths)
    transmission,     \* [num, den]: the raw estimate num[i]/den per pixel
    guide,            \* (img * 255).astype('uint8'), the buffer made gray
    src8,             \* (transmission * 255).astype('uint8')
    refined,          \* the guided filter's uint8 result
    t_map,            \* t: the clipped transmission, in 255ths
    J,                \* recovered radiance: J[i] = <<nb, ng, nr, den>>, n/den in 255ths
    dehazed           \* (J * 255).astype('uint8')

lowVars == <<mode, pc, shape_in, shape, mean_brightness, gamma, table, pixel>>
webVars == <<requests, uploads, results, clock>>

fogVars == <<fpc, image, dark, indices, A, transmission, guide, src8, refined,
             t_map, J, dehazed>>

vars == <<lowVars, webVars, fogVars>>

None == "None"

\* ------------------------------------------------------------------ bounds
\* mean brightness is drawn in steps of 1/MeanDen of a gray level
MeanDen == 2
\* gamma = p/q with p, q in 1..MaxGammaTerm for direct calls of
\* apply_gamma_correction
MaxGammaTerm == 3
\* microseconds the clock may advance while the requests run
MaxClock == 1

\* ------------------------------------------------------------ arithmetic
Max2(a, b) == IF a >= b THEN a ELSE b
Min2(a, b) == IF a <= b THEN a ELSE b

\* Natural numbers too wide for the checker's integers: digit sequences,
\* least significant digit first, no leading zero; <<>> is zero.
RECURSIVE BigOf(_, _)
BigOf(n, base) ==
    IF n = 0 THEN <<>> ELSE <<n % base>> \o BigOf(n \div base, base)

RECURSIVE BigMul(_, _, _, _)
BigMul(x, k, base, carry) ==
    IF x = <<>> THEN BigOf(carry, base)
    ELSE LET v == Head(x) * k + carry
         IN  <<v % base>> \o BigMul(Tail(x), k, base, v \div base)

RECURSIVE BigPowTimes(_, _, _, _)
\* x * k^n
BigPowTimes(x, k, n, base) ==
    IF n = 0 THEN x ELSE BigPowTimes(BigMul(x, k, base, 0), k, n - 1, base)

RECURSIVE BigLeqFrom(_, _, _)
BigLeqFrom(x, y, i) ==
    IF i = 0 THEN TRUE
    ELSE IF x[i] # y[i] THEN x[i] < y[i]
    ELSE BigLeqFrom(x, y, i - 1)

BigLeq(x, y) ==
    IF Len(x) # Len(y) THEN Len(x) < Len(y) ELSE BigLeqFrom(x, y, Len(x))

RECURSIVE BigVal(_, _)
BigVal(x, base) ==
    IF x = <<>> THEN 0 ELSE Head(x) + base * BigVal(Tail(x), base)

\* x + 1, base 2
BigInc(x) ==
    IF \A j \in 1..Len(x) : x[j] = 1
    THEN [j \in 1..(Len(x) + 1) |-> IF j = Len(x) + 1 THEN 1 ELSE 0]
    ELSE LET z == CHOOSE j \in 1..Len(x) :
                      x[j] = 0 /\ \A i \in 1..(j - 1) : x[i] = 1
         IN  [j \in 1..Len(x) |-> IF j < z THEN 0 ELSE IF j = z THEN 1 ELSE x[j]]

\* ------------------------------------------- IEEE-754 binary64 arithmetic
\* A positive double is [mant, exp]: mant a base-2 digit sequence (least
\* significant first) of at most MantBits+1 digits, the value mant * 2^(-exp).
MantBits == 53
\* digits of the wider base the product is formed in
LimbBits == 13

RECURSIVE Pow2(_)
Pow2(e) == IF e = 0 THEN 1 ELSE 2 * Pow2(e - 1)

RECURSIVE NormShift(_, _)
\* least e with n * 2^e >= m, for 0 < n
NormShift(n, m) == IF n >= m THEN 0 ELSE 1 + NormShift(2 * n, m)

RECURSIVE Pow2Mod(_, _)
\* 2^k mod m, by squaring
Pow2Mod(k, m) ==
    IF k = 0 THEN 1 % m
    ELSE LET h == Pow2Mod(k \div 2, m)
         IN  IF k % 2 = 0 THEN (h * h) % m ELSE (((h * h) % m) * 2) % m

\* the remainder of long division after j binary digits: n * 2^j mod m
DivRem(n, m, j) == ((n % m) * Pow2Mod(j, m)) % m

\* n / m of two ints, 0 < n < m: the correctly rounded (nearest, ties to
\* even) double
FloatDiv(n, m) ==
    LET e    == NormShift(n, m)
        \* digit MantBits is the leading 1; below it the long division's digits
        raw  == [idx \in 1..MantBits |->
                    IF idx = MantBits THEN 1
                    ELSE IF 2 * DivRem(n, m, e + MantBits - 1 - idx) >= m
                         THEN 1 ELSE 0]
        last == DivRem(n, m, e + MantBits - 1)
        up   == \/ 2 * last > m
                \/ 2 * last = m /\ raw[1] = 1
    IN  [mant |-> IF up THEN BigInc(raw) ELSE raw, exp |-> e + MantBits - 1]

\* a base-2 digit sequence as base-2^LimbBits digits, and back (no leading 0)
ToLimbs(bits) ==
    [l \in 1..((Len(bits) + LimbBits - 1) \div LimbBits) |->
        BigVal(SubSeq(bits, (l - 1) * LimbBits + 1,
                      Min2(l * LimbBits, Len(bits))), 2)]

ToBits(limbs) ==
    LET all == [j \in 1..(Len(limbs) * LimbBits) |->
                   (limbs[((j - 1) \div LimbBits) + 1]
                        \div Pow2((j - 1) % LimbBits)) % 2]
        set == {j \in 1..Len(all) : all[j] = 1}
        top == IF set = {} THEN 0
               ELSE CHOOSE j \in set : \A i \in set : i <= j
    IN  SubSeq(all, 1, top)

\* k * f for an int k >= 1 and a double f: the exact product rounded to
\* MantBits digits
FloatMulInt(k, f) ==
    LET prod   == ToBits(BigMul(ToLimbs(f.mant), k, Pow2(LimbBits), 0))
        d      == Max2(Len(prod) - MantBits, 0)
        head   == SubSeq(prod, d + 1, Len(prod))
        sticky == \E j \in 1..(d - 1) : prod[j] = 1
        up     == d > 0 /\ prod[d] = 1 /\ (sticky \/ head[1] = 1)
    IN  [mant |-> IF up THEN BigInc(head) ELSE head, exp |-> f.exp - d]

\* int(f): truncation toward zero, for f < 2^30
FloatToInt(f) ==
    IF f.exp <= 0 THEN BigVal(f.mant, 2) * Pow2(0 - f.exp)
    ELSE IF f.exp >= Len(f.mant) THEN 0
    ELSE BigVal(SubSeq(f.mant, f.exp + 1, Len(f.mant)), 2)

\* -------------------------------------------------- apply_gamma_correction
DigitBase == 2^15

\* e^p * 255^q <= i^q * k^p, that is  e <= (i/255)^(q/p) * k
GammaFits(e, i, p, q, k) ==
    BigLeq(BigPowTimes(BigPowTimes(<<1>>, e, p, DigitBase), 255, q, DigitBase),
           BigPowTimes(BigPowTimes(<<1>>, i, q, DigitBase), k, p, DigitBase))

RECURSIVE GammaSearch(_, _, _, _, _, _)
\* the largest e in lo..hi with GammaFits, lo known to fit
GammaSearch(lo, hi, i, p, q, k) ==
    IF lo = hi THEN lo
    ELSE LET mid == (lo + hi + 1) \div 2
         IN  IF GammaFits(mid, i, p, q, k)
             THEN GammaSearch(mid, hi, i, p, q, k)
             ELSE GammaSearch(lo, mid - 1, i, p, q, k)

\* floor((i / 255.0) ** inv_gamma * k), inv_gamma = g[2]/g[1]
GammaPower(i, g, k) ==
    IF i = 0 THEN 0 ELSE GammaSearch(0, k, i, g[1], g[2], k)

\* astype("uint8") of a non-negative float: truncation, then the low 8 bits
AsUint8(n) == n % 256

\* a table entry computed with a scale of 256 in place of 255
GammaEntryScale256(i, g) == AsUint8(GammaPower(i, g, 256))

\* ((i / 255.0) ** inv_gamma * 255) cast to uint8, gamma = g[1]/g[2]
GammaEntry(i, g) == AsUint8(GammaPower(i, g, 255))

\* gammas the program passes (1.8, 1.5, 1.2) and the ones drawn for direct
\* calls
ProgramGammas == {<<9, 5>>, <<3, 2>>, <<6, 5>>}
Gammas == ProgramGammas \cup ((1..MaxGammaTerm) \X (1..MaxGammaTerm))

RECURSIVE TableRange(_, _, _)
\* entries lo..hi of the table, in order
TableRange(lo, hi, g) ==
    IF lo = hi THEN <<GammaEntry(lo, g)>>
    ELSE LET mid == (lo + hi) \div 2
         IN  TableRange(lo, mid, g) \o TableRange(mid + 1, hi, g)

\* table = np.array([... for i in np.arange(0, 256)]).astype("uint8")
GammaTable(g) == TableRange(0, 255, g)

RECURSIVE TablesOf(_)
TablesOf(S) ==
    IF S = {} THEN <<>>
    ELSE LET g == CHOOSE x \in S : TRUE
         IN  (g :> GammaTable(g)) @@ TablesOf(S \ {g})

\* the tables, built once
Tables == TablesOf(Gammas)

\* cv2.LUT(image, table) on one sample
LUT(v, tbl) == tbl[v + 1]

\* ------------------------------------------------------- app.py: /enhance
Requests == {1, 2}
Filenames == {"", "a.png", "b.png"}
\* uploaded bytes: two images cv2.imread decodes, and a file it cannot
Contents == {"imgA", "imgB", "junk"}
\* request.form.get('mode'): None when the field is missing
FormModes == {"low_light", "fog", "smoke", "unknown_mode", None}

\* cv2.imread: the decoded buffer, or None for a file that is no image
Decode(bytes) == IF bytes \in {"junk", None} THEN None ELSE bytes

\* the enhancers of image_processing, as functions of the buffer
enhance_low_light(img) == <<"enhance_low_light", img>>
remove_fog(img) == <<"remove_fog", img>>
remove_smoke_noise(img) == <<"remove_smoke_noise", img>>

\* the dispatch with the fog and smoke branches exchanged
ProcessSwapped(m, img) ==
    IF m = "low_light" THEN enhance_low_light(img)
    ELSE IF m = "fog" THEN remove_smoke_noise(img)
    ELSE IF m = "smoke" THEN remove_fog(img)
    ELSE img

\* lines 60-67
Process(m, img) ==
    IF m = "low_light" THEN enhance_low_light(img)
    ELSE IF m = "fog" THEN remove_fog(img)
    ELSE IF m = "smoke" THEN remove_smoke_noise(img)
    ELSE img

NewRequest ==
    [pc |-> "idle", has_file |-> FALSE, filename |-> "", content |-> None,
     mode |-> None, image |-> None, processed |-> None,
     result_path |-> None, response |-> None]

WebStart ==
    /\ requests = [r \in Requests |-> NewRequest]
    /\ uploads = [f \in Filenames \ {""} |-> None]
    /\ results = [ts \in 0..MaxClock |-> None]
    /\ clock = 0

\* the handler is not running
WebIdle ==
    /\ requests = <<>>
    /\ uploads = <<>>
    /\ results = <<>>
    /\ clock = 0

FogIdle ==
    /\ fpc = "idle"
    /\ image = None
    /\ dark = <<>>
    /\ indices = {}
    /\ A = <<0, 0, 0>>
    /\ transmission = None
    /\ guide = <<>>
    /\ src8 = <<>>
    /\ refined = <<>>
    /\ t_map = <<>>
    /\ J = <<>>
    /\ dehazed = <<>>

LowIdle ==
    /\ mode = None
    /\ pc = "idle"
    /\ shape_in = <<1, 1>>
    /\ shape = <<1, 1>>
    /\ mean_brightness = None
    /\ gamma = None
    /\ table = <<>>
    /\ pixel = 0

InitWeb == WebStart /\ LowIdle /\ FogIdle

\* lines 40-47: the request arrives; no file part or an empty name redirects
Receive(r) ==
    /\ requests[r].pc = "idle"
    /\ \E hf \in BOOLEAN, fn \in Filenames, c \in Contents, m \in FormModes :
          /\ hf \/ (fn = "" /\ c = "junk" /\ m = None)
          /\ fn # "" \/ (c = "junk" /\ m = None)
          /\ requests' = [requests EXCEPT ![r] =
                 [@ EXCEPT !.has_file = hf, !.filename = fn, !.content = c,
                           !.mode = m,
                           !.pc = IF hf /\ fn # "" THEN "accepted"
                                  ELSE "redirected"]]
    /\ UNCHANGED <<uploads, results, clock, lowVars, fogVars>>

\* lines 51-52: file.save(static/uploads/<filename>)
SaveUpload(r) ==
    /\ requests[r].pc = "accepted"
    /\ uploads' = [uploads EXCEPT ![requests[r].filename] = requests[r].content]
    /\ requests' = [requests EXCEPT ![r].pc = "uploaded"]
    /\ UNCHANGED <<results, clock, lowVars, fogVars>>

\* lines 55-57: cv2.imread(filepath)
ReadImage(r) ==
    /\ requests[r].pc = "uploaded"
    /\ LET img == Decode(uploads[requests[r].filename])
       IN  requests' = [requests EXCEPT ![r] =
               IF img = None
               THEN [@ EXCEPT !.pc = "error_returned",
                              !.response = "Error: Unable to read image."]
               ELSE [@ EXCEPT !.pc = "read", !.image = img]]
    /\ UNCHANGED <<uploads, results, clock, lowVars, fogVars>>

\* lines 60-67
Dispatch(r) ==
    /\ requests[r].pc = "read"
    /\ requests' = [requests EXCEPT ![r] =
           [@ EXCEPT !.pc = "processed",
                     !.processed = Process(requests[r].mode,
                                          requests[r].image)]]
    /\ UNCHANGED <<uploads, results, clock, lowVars, fogVars>>

\* line 70 and save_image, lines 21-27: the name is the timestamp
SaveResult(r) ==
    /\ requests[r].pc = "processed"
    /\ results' = [results EXCEPT ![clock] = requests[r].processed]
    /\ requests' = [requests EXCEPT ![r] =
           [@ EXCEPT !.pc = "saved", !.result_path = clock]]
    /\ UNCHANGED <<uploads, clock, lowVars, fogVars>>

\* lines 73-79
Respond(r) ==
    /\ requests[r].pc = "saved"
    /\ requests' = [requests EXCEPT ![r] =
           [@ EXCEPT !.pc = "done",
                     !.response =
                         [original_image |-> requests[r].filename,
                          processed_image |-> requests[r].result_path,
                          mode |-> requests[r].mode]]]
    /\ UNCHANGED <<uploads, results, clock, lowVars, fogVars>>

\* time passes
Tick ==
    /\ clock < MaxClock
    /\ clock' = clock + 1
    /\ UNCHANGED <<requests, uploads, results, lowVars, fogVars>>

NextWeb ==
    \/ \E r \in Requests : Receive(r)
    \/ \E r \in Requests : SaveUpload(r)
    \/ \E r \in Requests : ReadImage(r)
    \/ \E r \in Requests : Dispatch(r)
    \/ \E r \in Requests : SaveResult(r)
    \/ \E r \in Requests : Respond(r)
    \/ Tick

SpecWeb == InitWeb /\ [][NextWeb]_vars

\* ------------------------------------------------------------- remove_fog
\* A float32 sample is held as the exact number of 255ths it stands for:
\* img = image / 255.0 holds v/255 for the 8-bit v, and img * 255 gives v
\* back (the float32 quotient and product round to v for every v in 0..255).
kernel_size == 15

NumPixels(im) == im.h * im.w
Row(i, w) == ((i - 1) \div w) + 1
Col(i, w) == ((i - 1) % w) + 1
Index(r, c, w) == (r - 1) * w + c

RECURSIVE RangeMin(_, _, _)
\* the least of f[lo..hi]
RangeMin(f, lo, hi) ==
    IF lo = hi THEN f[lo]
    ELSE LET mid == (lo + hi) \div 2
         IN  Min2(RangeMin(f, lo, mid), RangeMin(f, mid + 1, hi))

\* the minimum of the first two channels only
MinChannelTwo(im) ==
    [i \in 1..NumPixels(im) |-> Min2(im.px[i][1], im.px[i][2])]

\* cv2.min(cv2.min(img[:, :, 0], img[:, :, 1]), img[:, :, 2])
MinChannel(im) ==
    [i \in 1..NumPixels(im) |->
        Min2(Min2(im.px[i][1], im.px[i][2]), im.px[i][3])]

\* cv2.erode(src, np.ones((ksize, ksize))): the anchor is the kernel centre,
\* kernel cell (ki, kj) reads pixel (r + ki - anchor, c + kj - anchor), and
\* cells that fall outside the image are skipped (the default border value
\* of an erosion is the largest value)
Erode(src, h, w, ksize) ==
    LET anchor == ksize \div 2
    IN  [i \in 1..(h * w) |->
            LET r    == Row(i, w)
                c    == Col(i, w)
                r_lo == Max2(1, r - anchor)
                r_hi == Min2(h, r - anchor + ksize - 1)
                c_lo == Max2(1, c - anchor)
                c_hi == Min2(w, c - anchor + ksize - 1)
                rows == [r2 \in r_lo..r_hi |->
                            RangeMin(src, Index(r2, c_lo, w), Index(r2, c_hi, w))]
            IN  RangeMin(rows, r_lo, r_hi)]

\* int(max(num_pixels * 0.001, 1)): the double product is within 1e-12 of
\* n/1000 and never below it, so int() gives the floor of n/1000
NumBright(n) == Max2(n \div 1000, 1)

\* the comparison reversed: the smaller value is put nearer the top
AheadSmallest(f, i, j, order) ==
    IF i = 0 THEN j
    ELSE IF j = 0 THEN i
    ELSE IF f[i] # f[j] THEN (IF f[i] < f[j] THEN i ELSE j)
    ELSE IF order = "first" THEN Min2(i, j) ELSE Max2(i, j)

\* of two candidates (0 stands for none) the one argpartition puts nearer
\* the top: the larger value; numpy leaves the order of equal values open,
\* and it is drawn as lowest index first or highest index first
Ahead(f, i, j, order) ==
    IF i = 0 THEN j
    ELSE IF j = 0 THEN i
    ELSE IF f[i] # f[j] THEN (IF f[i] > f[j] THEN i ELSE j)
    ELSE IF order = "first" THEN Min2(i, j) ELSE Max2(i, j)

RECURSIVE Best(_, _, _, _, _)
Best(f, lo, hi, excl, order) ==
    IF lo = hi THEN (IF lo \in excl THEN 0 ELSE lo)
    ELSE LET mid == (lo + hi) \div 2
         IN  Ahead(f, Best(f, lo, mid, excl, order),
                      Best(f, mid + 1, hi, excl, order), order)

RECURSIVE Largest(_, _, _, _)
Largest(f, k, got, order) ==
    IF k = 0 THEN got
    ELSE Largest(f, k - 1, got \cup {Best(f, 1, Len(f), got, order)}, order)

\* np.argpartition(flat_dark, -num_bright)[-num_bright:]
Argpartition(f, k, order) == Largest(f, k, {}, order)

RECURSIVE ChannelSum(_, _, _)
ChannelSum(im, S, c) ==
    IF S = {} THEN 0
    ELSE LET i == CHOOSE x \in S : TRUE
         IN  im.px[i][c] + ChannelSum(im, S \ {i}, c)

\* brightest.mean(axis=0), as the sums: the mean is the sum / (255 * k)
AtmosphericSum(im, S) == <<ChannelSum(im, S, 1), ChannelSum(im, S, 2),
                           ChannelSum(im, S, 3)>>

\* 1 - omega * dark / (A.max() + 1e-6) with omega = 19/20, dark = d/255 and
\* A.max() = s/(255 k):
\*     1 - 950000 d k / (1000000 s + 255 k)
\*   = (200000 s + 51 k - 190000 d k) / (200000 s + 51 k)
TransmissionDen(Asum, k) == 200000 * Max2(Max2(Asum[1], Asum[2]), Asum[3]) + 51 * k
TransmissionNum(d, Asum, k) == TransmissionDen(Asum, k) - 190000 * d * k

RECURSIVE MulDivLow(_, _, _)
\* [q, r] with a * b = q * c + r, 0 <= r < c, for 0 <= a < c, without
\* forming a * b
MulDivLow(a, b, c) ==
    IF b = 0 THEN [q |-> 0, r |-> 0]
    ELSE LET hh == MulDivLow(a, b \div 2, c)
             r2 == 2 * hh.r + (b % 2) * a
         IN  [q |-> 2 * hh.q + (r2 \div c), r |-> r2 % c]

MulDiv(a, b, c) ==
    [q |-> (a \div c) * b + MulDivLow(a % c, b, c).q,
     r |-> MulDivLow(a % c, b, c).r]

\* what the build makes of a float below -1 cast to uint8, which C leaves
\* undefined: the low 8 bits of the truncated value, or 0
CastBuilds == {"wrap", "saturate"}

\* (f * 255).astype('uint8') for the float f = num/den, den > 0
CastUint8(num, den, build) ==
    IF num >= 0 THEN MulDiv(num, 255, den).q % 256
    ELSE LET m == MulDiv(0 - num, 255, den).q
         IN  IF m = 0 \/ build = "saturate" THEN 0
             ELSE (256 - (m % 256)) % 256

\* cv2.ximgproc.guidedFilter(guide, src, radius=40, eps=1e-3): a uint8 map
\* of the shape of src; the ones drawn are src itself and the flat maps
GuidedLevels == {0, 128}
GuidedOutputs(src) ==
    {src} \cup {[i \in 1..Len(src) |-> c] : c \in GuidedLevels}

\* a lower clip bound of 0.02 in place of 0.2
ClipTransmissionLow002(g) == Max2(5, Min2(g, 255))

\* np.clip(transmission, 0.2, 1.0) of g/255: 0.2 is 51/255
ClipTransmission(g) == Max2(51, Min2(g, 255))

\* (img - A) / t + A for the sample i/255, A = a/(255 k), t = g/255:
\*     (255 (i k - a) + a g) / (k g)   255ths
RadianceNum(i, a, k, g) == 255 * (i * k - a) + a * g
RadianceDen(k, g) == k * g

\* np.clip(J, 0, 1) of num/den 255ths
ClipUnit(num, den) == Max2(0, Min2(num, 255 * den))

\* ---- the input buffers drawn: a background with a band of another colour
\* at the left edge and one at the right edge
White == <<255, 255, 255>>
Gray153 == <<153, 153, 153>>
Gray128 == <<128, 128, 128>>
Orange == <<200, 100, 50>>
Black == <<0, 0, 0>>
Palette == {White, Gray153, Orange, Black}

MakeImage(h, w, bg, c1, w1, c2, w2) ==
    [h |-> h, w |-> w,
     px |-> [i \in 1..(h * w) |->
                IF Col(i, w) <= w1 THEN c1
                ELSE IF Col(i, w) > w - w2 THEN c2
                ELSE bg]]

SmallImages ==
    {MakeImage(sh[1], sh[2], bg, c1, w1, c2, w2) :
        sh \in {<<1, 17>>, <<2, 20>>}, bg \in Palette, c1 \in Palette,
        w1 \in {0, 3, 8}, c2 \in Palette, w2 \in {0, 8}}

LargeImages ==
    {MakeImage(1, w, Gray128, White, 8, c2, 8) :
        w \in {1001, 2000}, c2 \in {Gray153, White}}

InitFog ==
    /\ fpc = "start"
    /\ image \in SmallImages \cup LargeImages
    /\ dark = <<>>
    /\ indices = {}
    /\ A = <<0, 0, 0>>
    /\ transmission = None
    /\ guide = <<>>
    /\ src8 = <<>>
    /\ refined = <<>>
    /\ t_map = <<>>
    /\ J = <<>>
    /\ dehazed = <<>>
    /\ LowIdle
    /\ WebIdle

\* lines 66-71
DarkChannel ==
    /\ fpc = "start"
    /\ dark' = Erode(MinChannel(image), image.h, image.w, kernel_size)
    /\ fpc' = "dark"
    /\ UNCHANGED <<image, indices, A, transmission, guide, src8, refined, t_map,
                   J, dehazed, lowVars, webVars>>

\* lines 74-79
AtmosphericLight ==
    /\ fpc = "dark"
    /\ \E order \in {"first", "last"} :
          LET sel == Argpartition(dark, NumBright(Len(dark)), order)
          IN  /\ indices' = sel
              /\ A' = AtmosphericSum(image, sel)
    /\ fpc' = "atmospheric"
    /\ UNCHANGED <<image, dark, transmission, guide, src8, refined, t_map, J,
                   dehazed, lowVars, webVars>>

\* lines 82-83
EstimateTransmission ==
    /\ fpc = "atmospheric"
    /\ transmission' =
          [num |-> [i \in 1..Len(dark) |->
                       TransmissionNum(dark[i], A, Cardinality(indices))],
           den |-> TransmissionDen(A, Cardinality(indices))]
    /\ fpc' = "estimated"
    /\ UNCHANGED <<image, dark, indices, A, guide, src8, refined, t_map, J,
                   dehazed, lowVars, webVars>>

\* lines 86-90: the two uint8 casts and the guided filter
Refine ==
    /\ fpc = "estimated"
    /\ guide' = [i \in 1..Len(dark) |->
                    [c \in 1..3 |-> CastUint8(image.px[i][c], 255, "wrap")]]
    /\ \E build \in CastBuilds :
          LET src == [i \in 1..Len(dark) |->
                         CastUint8(transmission.num[i], transmission.den, build)]
          IN  /\ src8' = src
              /\ refined' \in GuidedOutputs(src)
    /\ fpc' = "refined"
    /\ UNCHANGED <<image, dark, indices, A, transmission, t_map, J, dehazed,
                   lowVars, webVars>>

\* line 92
Clip ==
    /\ fpc = "refined"
    /\ t_map' = [i \in 1..Len(refined) |-> ClipTransmission(refined[i])]
    /\ fpc' = "clipped"
    /\ UNCHANGED <<image, dark, indices, A, transmission, guide, src8, refined,
                   J, dehazed, lowVars, webVars>>

\* lines 95-97
Recover ==
    /\ fpc = "clipped"
    /\ J' = LET k == Cardinality(indices)
            IN  [i \in 1..Len(t_map) |->
                    LET den == RadianceDen(k, t_map[i])
                    IN  <<ClipUnit(RadianceNum(image.px[i][1], A[1], k, t_map[i]), den),
                          ClipUnit(RadianceNum(image.px[i][2], A[2], k, t_map[i]), den),
                          ClipUnit(RadianceNum(image.px[i][3], A[3], k, t_map[i]), den),
                          den>>]
    /\ fpc' = "recovered"
    /\ UNCHANGED <<image, dark, indices, A, transmission, guide, src8, refined,
                   t_map, dehazed, lowVars, webVars>>

\* line 99
ToUint8 ==
    /\ fpc = "recovered"
    /\ dehazed' = [i \in 1..Len(J) |->
                      [c \in 1..3 |-> CastUint8(J[i][c], 255 * J[i][4], "wrap")]]
    /\ fpc' = "dehazed"
    /\ UNCHANGED <<image, dark, indices, A, transmission, guide, src8, refined,
                   t_map, J, lowVars, webVars>>

\* lines 102-105: white balance and sharpen return a buffer of the same shape
Finish ==
    /\ fpc = "dehazed"
    /\ fpc' = "done"
    /\ UNCHANGED <<image, dark, indices, A, transmission, guide, src8, refined,
                   t_map, J, dehazed, lowVars, webVars>>

NextFog ==
    \/ DarkChannel
    \/ AtmosphericLight
    \/ EstimateTransmission
    \/ Refine
    \/ Clip
    \/ Recover
    \/ ToUint8
    \/ Finish

SpecFog == InitFog /\ [][NextFog]_vars

\* ------------------------------------------------------ enhance_low_light
\* the side above which enhance_low_light downscales
MaxSide == 1500

\* int(side * scale), scale = 1500 / max(h, w), for max(h, w) > 1500
ScaledSide(side, m) == FloatToInt(FloatMulInt(side, FloatDiv(MaxSide, m)))

\* the dsize handed to cv2.resize, as the <<h, w>> of its result; the shape
\* itself when no resize runs
ResizedShape(sh) ==
    LET m == Max2(sh[1], sh[2])
    IN  IF m > MaxSide THEN <<ScaledSide(sh[1], m), ScaledSide(sh[2], m)>>
        ELSE sh

\* cv2.resize rejects an empty dsize (a side of 0)
ResizeFails(sh) == ResizedShape(sh)[1] = 0 \/ ResizedShape(sh)[2] = 0

\* the thresholds compared with <= in place of <
GammaForInclusive(m) ==
    IF m <= 60 * MeanDen THEN <<9, 5>>
    ELSE IF m <= 90 * MeanDen THEN <<3, 2>>
    ELSE <<6, 5>>

\* the adaptive gamma of a mean brightness m / MeanDen
GammaFor(m) ==
    IF m < 60 * MeanDen THEN <<9, 5>>
    ELSE IF m < 90 * MeanDen THEN <<3, 2>>
    ELSE <<6, 5>>

\* sides of the input buffers drawn
Sides == {1, 2, 750, 1500, 1501, 2000, 2147, 3000}
Shapes == Sides \X Sides
Modes == {"low_light", "fog", "smoke"}
MeanRange == 0..(255 * MeanDen)

InitEnhance ==
    /\ mode \in Modes
    /\ shape_in \in Shapes
    /\ shape = shape_in
    /\ pc = "start"
    /\ mean_brightness = None
    /\ gamma = None
    /\ table = <<>>
    /\ pixel \in {0, 128, 255}
    /\ WebIdle
    /\ FogIdle

\* lines 29-32
Resize ==
    /\ mode = "low_light" /\ pc = "start"
    /\ IF ResizeFails(shape)
       THEN pc' = "error" /\ shape' = shape
       ELSE pc' = "resized" /\ shape' = ResizedShape(shape)
    /\ UNCHANGED <<mode, shape_in, mean_brightness, gamma, table, pixel, webVars, fogVars>>

\* line 35: simple_white_balance keeps the shape
WhiteBalance ==
    /\ mode = "low_light" /\ pc = "resized"
    /\ pc' = "balanced"
    /\ UNCHANGED <<mode, shape_in, shape, mean_brightness, gamma, table, pixel, webVars, fogVars>>

\* lines 38-45: CLAHE on the L channel; the pixels it produces are OpenCV's
Clahe ==
    /\ mode = "low_light" /\ pc = "balanced"
    /\ pc' = "clahe"
    /\ UNCHANGED <<mode, shape_in, shape, mean_brightness, gamma, table, pixel, webVars, fogVars>>

\* lines 48-54: the mean gray level of the CLAHE result selects gamma
SelectGamma ==
    /\ mode = "low_light" /\ pc = "clahe"
    /\ \E m \in MeanRange :
          /\ mean_brightness' = m
          /\ gamma' = GammaFor(m)
    /\ pc' = "gamma_selected"
    /\ UNCHANGED <<mode, shape_in, shape, table, pixel, webVars, fogVars>>

\* line 56: apply_gamma_correction(enhanced, gamma=gamma)
ApplyGamma ==
    /\ mode = "low_light" /\ pc = "gamma_selected"
    /\ table' = Tables[gamma]
    /\ pixel' = LUT(pixel, Tables[gamma])
    /\ pc' = "gamma_applied"
    /\ UNCHANGED <<mode, shape_in, shape, mean_brightness, gamma, webVars, fogVars>>

\* line 59: sharpen_image keeps the shape
Sharpen ==
    /\ mode = "low_light" /\ pc = "gamma_applied"
    /\ pc' = "done"
    /\ UNCHANGED <<mode, shape_in, shape, mean_brightness, gamma, table, pixel, webVars, fogVars>>

\* remove_fog: float conversion, erode, guided filter, clip, white balance
\* and sharpen all return arrays of the shape they are given
RemoveFogShape ==
    /\ mode = "fog" /\ pc = "start"
    /\ pc' = "done"
    /\ shape' = shape
    /\ UNCHANGED <<mode, shape_in, mean_brightness, gamma, table, pixel, webVars, fogVars>>

\* remove_smoke_noise: white balance, bilateral filter, non-local means and
\* sharpen all return arrays of the shape they are given
RemoveSmokeNoiseShape ==
    /\ mode = "smoke" /\ pc = "start"
    /\ pc' = "done"
    /\ shape' = shape
    /\ UNCHANGED <<mode, shape_in, mean_brightness, gamma, table, pixel, webVars, fogVars>>

NextEnhance ==
    \/ Resize
    \/ WhiteBalance
    \/ Clahe
    \/ SelectGamma
    \/ ApplyGamma
    \/ Sharpen
    \/ RemoveFogShape
    \/ RemoveSmokeNoiseShape

SpecEnhance == InitEnhance /\ [][NextEnhance]_vars

\* ------------------------------------- apply_gamma_correction, called alone
InitGamma ==
    /\ mode = "gamma"
    /\ pc = "call"
    /\ shape_in = <<1, 1>>
    /\ shape = <<1, 1>>
    /\ mean_brightness = None
    /\ gamma \in Gammas
    /\ table = <<>>
    /\ pixel \in 0..255
    /\ WebIdle
    /\ FogIdle

\* lines 6-9: build the table, map the image through it
GammaCorrection ==
    /\ mode = "gamma" /\ pc = "call"
    /\ table' = Tables[gamma]
    /\ pixel' = LUT(pixel, Tables[gamma])
    /\ pc' = "returned"
    /\ UNCHANGED <<mode, shape_in, shape, mean_brightness, gamma, webVars, fogVars>>

NextGamma == GammaCorrection

SpecGamma == InitGamma /\ [][NextGamma]_vars

\* ================================================================ claims

\* ---------------------------------------------------------------- SpecWeb
AfterDispatch == {"processed", "saved", "done"}

\* C1: mode "low_light" produces the result of enhance_low_light, "fog" of
\* remove_fog, "smoke" of remove_smoke_noise; every other mode value, a
\* missing mode included, produces the input buffer itself, and a request
\* that has read its buffer never ends in the error return.
C1_DispatchByMode ==
    \A r \in Requests :
        LET q == requests[r]
        IN  /\ q.pc \in AfterDispatch =>
                /\ q.image # None
                /\ q.mode = "low_light" => q.processed = enhance_low_light(q.image)
                /\ q.mode = "fog" => q.processed = remove_fog(q.image)
                /\ q.mode = "smoke" => q.processed = remove_smoke_noise(q.image)
                /\ q.mode \notin {"low_light", "fog", "smoke"} =>
                       q.processed = q.image
            /\ q.pc = "error_returned" => q.image = None /\ q.processed = None

C1_Witness ==
    /\ requests[1].pc = "done"
    /\ requests[1].mode = None
    /\ requests[1].processed = "imgA"
    /\ requests[2].pc = "done"
    /\ requests[2].mode = "fog"
    /\ requests[2].processed = remove_fog("imgB")

\* what request r returns when it runs alone
AloneImage(r) == Decode(requests[r].content)
AloneResult(r) == Process(requests[r].mode, AloneImage(r))

\* C9: under every interleaving each request's buffer, processed result and
\* the result file its response names are those of the request run alone.
C9_RequestsIndependent ==
    \A r \in Requests :
        LET q == requests[r]
        IN  /\ q.pc \in {"read"} \cup AfterDispatch => q.image = AloneImage(r)
            /\ q.pc = "error_returned" => AloneImage(r) = None
            /\ q.pc \in AfterDispatch => q.processed = AloneResult(r)
            /\ q.pc = "done" => results[q.response.processed_image] = AloneResult(r)

\* ------------------------------------------------------------ SpecEnhance
\* C2: remove_fog and remove_smoke_noise return the input's shape;
\* enhance_low_light returns it when max(W,H) <= 1500, and otherwise a
\* non-empty shape whose larger side is 1500 and whose smaller side is the
\* original one scaled by 1500/max(W,H).
C2_OutputDimensions ==
    /\ pc # "error"
    /\ pc = "done" =>
          LET m == Max2(shape_in[1], shape_in[2])
          IN  IF mode = "low_light" /\ m > 1500
              THEN \A d \in 1..2 :
                      /\ shape[d] >= 1
                      /\ shape_in[d] = m => shape[d] = 1500
                      \* within one of the exact quotient
                      /\ shape[d] * m <= shape_in[d] * 1500
                      /\ shape_in[d] * 1500 < (shape[d] + 1) * m
              ELSE shape = shape_in

\* C3: the gamma handed to gamma correction is 1.8 for a mean below 60, 1.5
\* for a mean in [60, 90) and 1.2 otherwise; it is chosen after CLAHE and
\* before the table is built and the image sharpened.
C3_AdaptiveGamma ==
    mode = "low_light" =>
        /\ pc \in {"start", "resized", "balanced", "clahe", "error"} =>
               gamma = None /\ mean_brightness = None /\ table = <<>>
        /\ pc \in {"gamma_selected", "gamma_applied", "done"} =>
               /\ mean_brightness \in 0..(255 * MeanDen)
               /\ mean_brightness < 60 * MeanDen => gamma = <<9, 5>>
               /\ (60 * MeanDen <= mean_brightness /\ mean_brightness < 90 * MeanDen)
                      => gamma = <<3, 2>>
               /\ 90 * MeanDen <= mean_brightness => gamma = <<6, 5>>
        /\ pc = "gamma_selected" => table = <<>>
        /\ pc \in {"gamma_applied", "done"} => table = Tables[gamma]

C3_Witness ==
    /\ mode = "low_light"
    /\ pc = "done"
    /\ mean_brightness = 60 * MeanDen
    /\ gamma = <<3, 2>>
    /\ table # <<>>

\* -------------------------------------------------------------- SpecGamma
\* C4: the table is non-decreasing, every entry is in 0..255, and for
\* gamma = 1.0 entry i is i.  (Non-decreasing is stated on neighbours, which
\* gives it for every i <= j.)
C4_GammaTable ==
    pc = "returned" =>
        /\ Len(table) = 256
        /\ \A i \in 1..256 : table[i] \in 0..255
        /\ \A i \in 1..255 : table[i] <= table[i + 1]
        /\ gamma[1] = gamma[2] => \A i \in 0..255 : table[i + 1] = i

C4_Witness ==
    /\ pc = "returned"
    /\ gamma = <<2, 2>>
    /\ table[201] = 200
    /\ pixel = 200

\* ---------------------------------------------------------------- SpecFog
FogAfter(p) ==
    CASE p = "dark"        -> {"dark", "atmospheric", "estimated", "refined",
                               "clipped", "recovered", "dehazed", "done"}
      [] p = "atmospheric" -> {"atmospheric", "estimated", "refined", "clipped",
                               "recovered", "dehazed", "done"}
      [] p = "estimated"   -> {"estimated", "refined", "clipped", "recovered",
                               "dehazed", "done"}
      [] p = "refined"     -> {"refined", "clipped", "recovered", "dehazed", "done"}
      [] p = "clipped"     -> {"clipped", "recovered", "dehazed", "done"}
      [] p = "recovered"   -> {"recovered", "dehazed", "done"}
      [] p = "dehazed"     -> {"dehazed", "done"}

\* x is round(255 * num / den) clamped to 0..255 (a tie may go either way)
IsRounded(x, num, den) ==
    IF num <= 0 THEN x = 0
    ELSE LET d == MulDiv(num, 255, den)
         IN  \/ 2 * d.r <= den /\ x = Min2(d.q, 255)
             \/ 2 * d.r >= den /\ x = Min2(d.q + 1, 255)

\* C5: every float-to-8-bit conversion (the guide, the transmission map fed
\* to the guided filter, the recovered radiance) yields round(f * 255)
\* clamped to [0, 255], and v -> v/255 -> 8-bit returns v.
C5_RoundedConversions ==
    /\ fpc \in FogAfter("refined") =>
          \A i \in 1..Len(guide) :
              /\ \A c \in 1..3 : /\ IsRounded(guide[i][c], image.px[i][c], 255)
                                 /\ guide[i][c] = image.px[i][c]
              /\ IsRounded(src8[i], transmission.num[i], transmission.den)
    /\ fpc \in FogAfter("dehazed") =>
          \A i \in 1..Len(dehazed) : \A c \in 1..3 :
              IsRounded(dehazed[i][c], J[i][c], 255 * J[i][4])

\* C6 as amended: A is the per-channel mean of the colours of exactly k
\* pixels, k = 0.1% of N truncated to an integer and at least 1; no
\* unselected pixel has a dark value above a selected one's; A is in [0, 1].
C6_AtmosphericLight ==
    fpc \in FogAfter("atmospheric") =>
        LET n == NumPixels(image)
            k == IF n < 1000 THEN 1 ELSE n \div 1000
        IN  /\ indices \subseteq 1..n
            /\ Cardinality(indices) = k
            /\ \A i \in indices : \A j \in (1..n) \ indices : dark[j] <= dark[i]
            /\ \A c \in 1..3 :
                  /\ A[c] = ChannelSum(image, indices, c)
                  /\ 0 <= A[c] /\ A[c] <= 255 * k

\* C6 as stated: k is 0.1% of N rounded up
C6_RoundedUp ==
    fpc \in FogAfter("atmospheric") =>
        Cardinality(indices) = (NumPixels(image) + 999) \div 1000

C6_Witness ==
    /\ fpc = "atmospheric"
    /\ NumPixels(image) = 2000
    /\ indices = {1, 2000}
    /\ A = <<408, 408, 408>>

\* the pixels of the 15x15 window centred on pixel i that lie in the image
Window(i, h, w) ==
    {Index(r, c, w) :
        r \in {y \in (Row(i, w) - 7)..(Row(i, w) + 7) : 1 <= y /\ y <= h},
        c \in {x \in (Col(i, w) - 7)..(Col(i, w) + 7) : 1 <= x /\ x <= w}}

PixelMin(i) == Min2(Min2(image.px[i][1], image.px[i][2]), image.px[i][3])

\* C7: the dark value of a pixel is at most the least of its own three
\* channels, and is the least channel value over the 15x15 window centred
\* on it, cut to the image.
C7_DarkChannel ==
    fpc = "dark" =>
        \A i \in 1..NumPixels(image) :
            /\ dark[i] <= PixelMin(i)
            /\ \A j \in Window(i, image.h, image.w) : dark[i] <= PixelMin(j)
            /\ \E j \in Window(i, image.h, image.w) : dark[i] = PixelMin(j)

C7_Witness ==
    /\ fpc = "dark"
    /\ image.w = 17
    /\ image.px[1] = White /\ image.px[9] = Orange
    /\ image.px[17] = Black
    /\ dark[1] = 255 /\ dark[2] = 50 /\ dark[3] = 0 /\ dark[17] = 0

\* C8: the transmission J is divided by is in [0.2, 1.0] at every pixel, and
\* every channel of J is in [0, 1] before the 8-bit conversion.
C8_TransmissionRange ==
    /\ fpc \in FogAfter("clipped") =>
          \A i \in 1..Len(t_map) : 5 * t_map[i] >= 255 /\ t_map[i] <= 255
    /\ fpc \in FogAfter("recovered") =>
          \A i \in 1..Len(J) :
              /\ J[i][4] = Cardinality(indices) * t_map[i]
              /\ 5 * J[i][4] >= 255 * Cardinality(indices)
              /\ \A c \in 1..3 : 0 <= J[i][c] /\ J[i][c] <= 255 * J[i][4]

C8_Witness ==
    /\ fpc = "recovered"
    /\ \E i \in 1..Len(J) :
          /\ refined[i] < 51 /\ t_map[i] = 51
          /\ RadianceNum(image.px[i][1], A[1], Cardinality(indices), t_map[i]) < 0
          /\ J[i][1] = 0

\* C10: the raw estimate t = 1 - 0.95 dark / (max(A) + 1e-6) is in [0, 1] at
\* every pixel, so t * 255 is in [0, 255] at the 8-bit cast.
C10_EstimateInUnitRange ==
    fpc \in FogAfter("estimated") =>
        \A i \in 1..Len(dark) :
            0 <= transmission.num[i] /\ transmission.num[i] <= transmission.den

====
